---- MODULE Spec2Model ----
(***************************************************************************)
(* SnarkifyProver (src/src/prover.rs): the adapter between the proving     *)
(* SDK's ProvingService contract (get_vk, prove, query_task) and the       *)
(* Snarkify HTTP API.  One call is in progress at a time in this model;    *)
(* the adapter shares no mutable state between calls.  The retry loop of   *)
(* the RetryTransientMiddleware installed by SnarkifyProver::new is        *)
(* modelled attempt by attempt; everything the handler does once send()    *)
(* has produced its final outcome happens in the step that delivers it.    *)
(***************************************************************************)
EXTENDS Integers, Sequences, FiniteSets, TLC

(* ------------------------------ bounds --------------------------------- *)

\* largest configured cfg.retry_count explored
MaxRetryCount == 2

(* ------------------------------- state --------------------------------- *)

VARIABLES
    base_url,      \* SnarkifyProver.base_url
    retry_count,   \* cfg.retry_count, held by the client's retry policy
    pc,            \* "idle", "sending", "backoff" or "returned"
    op,            \* the operation in progress or last returned
    request,       \* its request
    attempts,      \* attempts sent for it so far
    outcome,       \* outcome of its latest attempt
    result,        \* Some(response) once it has returned
    log,           \* lines logged during it
    prev           \* the call before it, when that was the same request
                   \* answered on its first attempt: its answer and response

vars == << base_url, retry_count, pc, op, request, attempts, outcome, result, log, prev >>

(* ------------------------------ options -------------------------------- *)

\* Rust Option<T>: None is the empty sequence, Some(x) the one-element one
None == << >>
Some(x) == << x >>
IsSome(o) == Len(o) = 1
Unwrap(o) == o[1]

(* --------------------------- configuration ----------------------------- *)

API_VERSION == "v1"

\* cfg.base_url values: <<scheme, host>>; an empty scheme does not parse
BaseUrls == { <<"https", "api.example">>, <<"", "api.example">> }

ServiceId == "svc1"

(* ------------------------------ requests ------------------------------- *)

Ops == {"get_vk", "prove", "query_task"}

CircuitTypes == {"Undefined", "Chunk", "Batch", "Bundle"}

GetVkRequests ==
    { [circuit_type |-> "Chunk", circuit_version |-> "v1.2"],
      [circuit_type |-> "Batch", circuit_version |-> "v1.3"] }

ProveRequests ==
    { [circuit_type |-> "Chunk", circuit_version |-> "v1.2",
       hard_fork_name |-> "forkA", input |-> "0xdead"],
      [circuit_type |-> "Bundle", circuit_version |-> "v1.3",
       hard_fork_name |-> "forkB", input |-> "0xbeef"] }

QueryTaskRequests == { [task_id |-> "abc123"], [task_id |-> "xyz789"] }

RequestsOf(o) ==
    CASE o = "get_vk" -> GetVkRequests
      [] o = "prove" -> ProveRequests
      [] o = "query_task" -> QueryTaskRequests

\* CircuitType::to_u8 as used in the get_vk path
to_u8(ct) ==
    CASE ct = "Undefined" -> 0
      [] ct = "Chunk" -> 1
      [] ct = "Batch" -> 2
      [] ct = "Bundle" -> 3

(* ------------------------- what the remote sends ----------------------- *)

\* HTTP statuses the remote is sampled with: the accepted range, its two
\* neighbours' classes, a plain client error, and the statuses the retry
\* middleware classifies as transient
Statuses == {200, 201, 202, 203, 404, 408, 429, 500}

\* remote timestamps carry sub-second precision: ticks, TicksPerSec a second
TicksPerSec == 2

RemoteStates == {"queued", "proving", "success", "failed"}

\* the JSON string in SnarkifyGetTaskResponse.input: wellformed or not
GoodInput ==
    [json |-> TRUE,
     val |-> [circuit_type |-> "Chunk", circuit_version |-> "v1.2",
              hard_fork_name |-> "forkA", task_data |-> "0xdead"]]
BadInput ==
    [json |-> FALSE,
     val |-> [circuit_type |-> "Undefined", circuit_version |-> "",
              hard_fork_name |-> "", task_data |-> ""]]

BaseTask ==
    [kind |-> "task", task_id |-> "remote42", state |-> "queued",
     input |-> GoodInput, created |-> None, started |-> None,
     finished |-> None, proof |-> None, error |-> None]

\* task bodies: the base task with one aspect varied at a time
TaskBodies ==
      { [BaseTask EXCEPT !.state = s] : s \in RemoteStates }
 \cup { [BaseTask EXCEPT !.started = st, !.finished = fi] :
            st \in {None, Some(21)}, fi \in {None, Some(50)} }
 \cup { [BaseTask EXCEPT !.proof = p, !.error = e, !.state = s] :
            p \in {None, Some("proof1")}, e \in {None, Some("remote task error")},
            s \in {"success"} }
 \cup { [BaseTask EXCEPT !.input = BadInput],
        [BaseTask EXCEPT !.created = Some(11)] }

VkBodies == { [kind |-> "vk", vk |-> "vkA"] }

\* a body that is not JSON of any expected shape
Garbage == [kind |-> "garbage"]

\* a body whose transfer breaks off while response.text() reads it
Unreadable == [kind |-> "unreadable"]

Bodies == {Garbage, Unreadable} \cup VkBodies \cup TaskBodies

\* bodies sampled with a status: the adapter reads no body of a status it
\* rejects, so outside the 2xx class one body stands for all
BodiesFor(s) == IF s \in 200..299 THEN Bodies ELSE {Garbage}

\* the outcome of one attempt, or of send() as a whole
NoOutcome == [kind |-> "none", status |-> 0, body |-> Garbage]
\* connection error, reset or timeout
TransientError == [kind |-> "transient", status |-> 0, body |-> Garbage]
\* a transport error the middleware does not retry (redirect loop, builder)
FatalError == [kind |-> "fatal", status |-> 0, body |-> Garbage]
Answer(s, b) == [kind |-> "answer", status |-> s, body |-> b]

(* ------------------------------ URL builder ---------------------------- *)

get_vk_method(req) ==
    << API_VERSION, "scroll", "sdk", "vks", "versions", req.circuit_version,
       "types", to_u8(req.circuit_type) >>

prove_method == << API_VERSION, "services", ServiceId >>

query_task_method(req) == << API_VERSION, "tasks", req.task_id >>

Ok(v) == [ok |-> TRUE, val |-> v]
Err(e) == [ok |-> FALSE, err |-> e]

\* format!("{}{}", base_url, method) then Url::parse: a URL without a
\* scheme is rejected (relative URL without a base)
build_url(method) ==
    IF base_url[1] = ""
    THEN Err([what |-> "url", method |-> method, status |-> 0])
    ELSE Ok(<< base_url, method >>)

(* ------------------------------ retry policy --------------------------- *)

\* Retryable, were every 4xx answer classified as transient too
Retryable_client_errors(att) ==
    CASE att.kind = "transient" -> TRUE
      [] att.kind = "fatal" -> FALSE
      [] att.kind = "answer" ->
            \/ att.status \in 500..599
            \/ att.status \in 400..499
      [] OTHER -> FALSE

\* RetryTransientMiddleware's default strategy on an attempt's outcome:
\* TRUE when the outcome is transient.  Connection errors and timeouts are;
\* so are answers with a 5xx status, 408 and 429; everything else is final.
Retryable(att) ==
    CASE att.kind = "transient" -> TRUE
      [] att.kind = "fatal" -> FALSE
      [] att.kind = "answer" ->
            \/ att.status \in 500..599
            \/ att.status = 408
            \/ att.status = 429
      [] OTHER -> FALSE

\* should_retry, were the bound inclusive
should_retry_inclusive(n_past_retries, max_retries) == n_past_retries <= max_retries

\* ExponentialBackoff::build_with_max_retries(cfg.retry_count): retry while
\* fewer than retry_count retries have been made
should_retry(n_past_retries, max_retries) == n_past_retries < max_retries

(* --------------------------- validator & decoder ----------------------- *)

\* serde_json::from_str::<Resp>(body) for Resp = SnarkifyGetVkResponse
\* ("vk") or SnarkifyGetTaskResponse ("task")
from_str(shape, body) ==
    IF body.kind = shape THEN Ok(body)
    ELSE Err([what |-> "decode", method |-> << >>, status |-> 0])

\* a log line: level and text (a tuple of the parts of the message)
LogLine(level, text) == [level |-> level, text |-> text]

\* get_with_token, were the whole 2xx class accepted
get_with_token_2xx(method, shape, sent) ==
    LET url == build_url(method)
    IN  IF ~url.ok THEN url
        ELSE IF sent.kind # "answer"
        THEN Err([what |-> "transport", method |-> << >>, status |-> 0])
        ELSE IF ~(sent.status >= 200 /\ sent.status < 300)
        THEN Err([what |-> "status", method |-> method, status |-> sent.status])
        ELSE IF sent.body.kind = "unreadable"
        THEN Err([what |-> "body", method |-> << >>, status |-> 0])
        ELSE from_str(shape, sent.body)

\* get_with_token, were the number of attempts made part of its error
get_with_token_counting(method, shape, sent) ==
    LET url == build_url(method)
    IN  IF ~url.ok THEN url
        ELSE IF sent.kind # "answer"
        THEN Err([what |-> "transport", method |-> << >>, status |-> 0])
        ELSE IF ~(sent.status >= 200 /\ sent.status <= 202)
        THEN Err([what |-> "status", method |-> << method, attempts >>,
                  status |-> sent.status])
        ELSE IF sent.body.kind = "unreadable"
        THEN Err([what |-> "body", method |-> << >>, status |-> 0])
        ELSE from_str(shape, sent.body)

\* get_with_token::<Resp>(method), given the final outcome of send() (not
\* consulted when the URL does not build)
get_with_token(method, shape, sent) ==
    LET url == build_url(method)
    IN  IF ~url.ok THEN url
        ELSE IF sent.kind # "answer"
        THEN Err([what |-> "transport", method |-> << >>, status |-> 0])
        ELSE IF ~(sent.status >= 200 /\ sent.status <= 202)
        THEN Err([what |-> "status", method |-> method, status |-> sent.status])
        ELSE IF sent.body.kind = "unreadable"
        THEN Err([what |-> "body", method |-> << >>, status |-> 0])
        ELSE from_str(shape, sent.body)

\* the log::info! / log::debug! lines of get_with_token
get_with_token_log(method, sent) ==
    IF ~build_url(method).ok THEN << >>
    ELSE << LogLine("info", << "Snarkify Client", "sent request" >>) >> \o
         ( IF /\ sent.kind = "answer"
              /\ sent.status >= 200 /\ sent.status <= 202
              /\ sent.body.kind # "unreadable"
           THEN << LogLine("info", << "Snarkify Client", "received response" >>),
                   LogLine("debug", << "Snarkify Client", "response" >>) >>
           ELSE << >> )

\* post_with_token::<Req, Resp>(method, body)
post_with_token(method, shape, sent) ==
    LET url == build_url(method)
    IN  IF ~url.ok THEN url
        ELSE IF sent.kind # "answer"
        THEN Err([what |-> "transport", method |-> << >>, status |-> 0])
        ELSE IF ~(sent.status >= 200 /\ sent.status <= 202)
        THEN Err([what |-> "status", method |-> method, status |-> sent.status])
        ELSE IF sent.body.kind = "unreadable"
        THEN Err([what |-> "body", method |-> << >>, status |-> 0])
        ELSE from_str(shape, sent.body)

\* the log::info! / log::debug! lines of post_with_token
post_with_token_log(method, sent) ==
    IF ~build_url(method).ok THEN << >>
    ELSE << LogLine("info", << "Snarkify Client", "sent request" >>), LogLine("debug", << "Snarkify Client", "request" >>) >> \o
         ( IF /\ sent.kind = "answer"
              /\ sent.status >= 200 /\ sent.status <= 202
              /\ sent.body.kind # "unreadable"
           THEN << LogLine("info", << "Snarkify Client", "received response" >>),
                   LogLine("debug", << "Snarkify Client", "response" >>) >>
           ELSE << >> )

(* --------------------------- status/time mapper ------------------------ *)

\* From<remote state> for TaskStatus
StateInto(state) ==
    CASE state = "queued" -> "Queued"
      [] state = "proving" -> "Proving"
      [] state = "success" -> "Success"
      [] state = "failed" -> "Failed"

\* DateTime::timestamp(): whole seconds since the epoch
timestamp(t) == t \div TicksPerSec

\* opt.map(|t| t.timestamp() as f64)
map_timestamp(opt) == IF IsSome(opt) THEN Some(timestamp(Unwrap(opt))) ELSE None

\* compute_time_sec, were the operands swapped
compute_time_sec_reversed(started_at, finished_at) ==
    IF IsSome(started_at) /\ IsSome(finished_at)
    THEN Some(Unwrap(started_at) - Unwrap(finished_at))
    ELSE None

\* the match on (started_at, finished_at) in query_task
compute_time_sec(started_at, finished_at) ==
    IF IsSome(started_at) /\ IsSome(finished_at)
    THEN Some(Unwrap(finished_at) - Unwrap(started_at))
    ELSE None

\* serde_json::from_str::<SnarkifyCreateTaskInput>(&resp.input)
parse_task_input(input) ==
    IF input.json THEN Ok(input.val)
    ELSE Err([what |-> "decode", method |-> << >>, status |-> 0])

(* ------------------------------ error builders ------------------------- *)

\* format!("<prefix>: {}", e)
ErrorMsg(prefix, e) == [prefix |-> prefix, cause |-> e]

\* build_prove_error_response, were its status the query builder's
build_prove_error_response_queued(req, error_msg) ==
    [task_id |-> "",
     circuit_type |-> req.circuit_type,
     circuit_version |-> req.circuit_version,
     hard_fork_name |-> req.hard_fork_name,
     status |-> "Queued",
     created_at |-> 0,
     started_at |-> None,
     finished_at |-> None,
     compute_time_sec |-> None,
     input |-> Some(req.input),
     proof |-> None,
     vk |-> None,
     error |-> Some(error_msg)]

\* build_prove_error_response, were vk an empty string instead of unset
build_prove_error_response_vk(req, error_msg) ==
    [task_id |-> "",
     circuit_type |-> req.circuit_type,
     circuit_version |-> req.circuit_version,
     hard_fork_name |-> req.hard_fork_name,
     status |-> "Failed",
     created_at |-> 0,
     started_at |-> None,
     finished_at |-> None,
     compute_time_sec |-> None,
     input |-> Some(req.input),
     proof |-> None,
     vk |-> Some(""),
     error |-> Some(error_msg)]

build_prove_error_response(req, error_msg) ==
    [task_id |-> "",
     circuit_type |-> req.circuit_type,
     circuit_version |-> req.circuit_version,
     hard_fork_name |-> req.hard_fork_name,
     status |-> "Failed",
     created_at |-> 0,
     started_at |-> None,
     finished_at |-> None,
     compute_time_sec |-> None,
     input |-> Some(req.input),
     proof |-> None,
     vk |-> None,
     error |-> Some(error_msg)]

\* build_query_task_error_response, were its status the prove builder's
build_query_task_error_response_failed(req, error_msg) ==
    [task_id |-> req.task_id,
     circuit_type |-> "Undefined",
     circuit_version |-> "",
     hard_fork_name |-> "",
     status |-> "Failed",
     created_at |-> 0,
     started_at |-> None,
     finished_at |-> None,
     compute_time_sec |-> None,
     input |-> None,
     proof |-> None,
     vk |-> None,
     error |-> Some(error_msg)]

build_query_task_error_response(req, error_msg) ==
    [task_id |-> req.task_id,
     circuit_type |-> "Undefined",
     circuit_version |-> "",
     hard_fork_name |-> "",
     status |-> "Queued",
     created_at |-> 0,
     started_at |-> None,
     finished_at |-> None,
     compute_time_sec |-> None,
     input |-> None,
     proof |-> None,
     vk |-> None,
     error |-> Some(error_msg)]

(* ------------------------------ service adapter ------------------------ *)

\* each operation, given the final outcome of its one send(): the response
\* it returns and the lines it logs

get_vk(req, sent) ==
    LET method == get_vk_method(req)
        r == get_with_token(method, "vk", sent)
        tlog == get_with_token_log(method, sent)
    IN  IF r.ok
        THEN [resp |-> [vk |-> r.val.vk, error |-> None], log |-> tlog]
        ELSE [resp |-> [vk |-> "", error |-> Some(ErrorMsg("Failed to get vk", r.err))],
              log |-> tlog \o << LogLine("error", << "get_vk", "method failed" >>) >>]

\* prove_response, were the input taken from the remote's copy of the task
prove_response_remote_input(req, resp) ==
    [task_id |-> resp.task_id,
     circuit_type |-> req.circuit_type,
     circuit_version |-> req.circuit_version,
     hard_fork_name |-> req.hard_fork_name,
     status |-> StateInto(resp.state),
     created_at |-> IF IsSome(resp.created)
                    THEN timestamp(Unwrap(resp.created)) ELSE 0,
     started_at |-> map_timestamp(resp.started),
     finished_at |-> None,
     compute_time_sec |-> None,
     input |-> Some(resp.input.val.task_data),
     proof |-> None,
     vk |-> None,
     error |-> None]

\* the ProveResponse built in the Ok arm of prove
prove_response(req, resp) ==
    [task_id |-> resp.task_id,
     circuit_type |-> req.circuit_type,
     circuit_version |-> req.circuit_version,
     hard_fork_name |-> req.hard_fork_name,
     status |-> StateInto(resp.state),
     created_at |-> IF IsSome(resp.created)
                    THEN timestamp(Unwrap(resp.created)) ELSE 0,
     started_at |-> map_timestamp(resp.started),
     finished_at |-> None,
     compute_time_sec |-> None,
     input |-> Some(req.input),
     proof |-> None,
     vk |-> None,
     error |-> None]

prove(req, sent) ==
    LET method == prove_method
        r == post_with_token(method, "task", sent)
        tlog == post_with_token_log(method, sent)
    IN  IF r.ok
        THEN [resp |-> prove_response(req, r.val), log |-> tlog]
        ELSE [resp |-> build_prove_error_response(
                           req, ErrorMsg("Failed to request proof", r.err)),
              log |-> tlog \o << LogLine("error", << "prove", "method failed" >>) >>]

query_task(req, sent) ==
    LET method == query_task_method(req)
        r == get_with_token(method, "task", sent)
        tlog == get_with_token_log(method, sent)
    IN  IF r.ok
        THEN LET task_input == parse_task_input(r.val.input)
                 started_at == map_timestamp(r.val.started)
                 finished_at == map_timestamp(r.val.finished)
             IN  IF ~task_input.ok
                 THEN [resp |-> build_query_task_error_response(
                                    req, ErrorMsg("Failed to parse task input",
                                                  task_input.err)),
                       log |-> tlog]
                 ELSE [resp |->
                         [task_id |-> r.val.task_id,
                          circuit_type |-> task_input.val.circuit_type,
                          circuit_version |-> task_input.val.circuit_version,
                          hard_fork_name |-> task_input.val.hard_fork_name,
                          status |-> StateInto(r.val.state),
                          created_at |-> IF IsSome(r.val.created)
                                         THEN timestamp(Unwrap(r.val.created)) ELSE 0,
                          started_at |-> started_at,
                          finished_at |-> finished_at,
                          compute_time_sec |-> compute_time_sec(started_at, finished_at),
                          input |-> Some(task_input.val.task_data),
                          proof |-> r.val.proof,
                          vk |-> None,
                          error |-> r.val.error],
                       log |-> tlog]
        ELSE [resp |-> build_query_task_error_response(
                           req, ErrorMsg("Failed to query proof", r.err)),
              log |-> tlog \o << LogLine("error", << "query_task", "method failed" >>) >>]

\* the ProvingService operation named o
Serve(o, req, sent) ==
    CASE o = "get_vk" -> get_vk(req, sent)
      [] o = "prove" -> prove(req, sent)
      [] o = "query_task" -> query_task(req, sent)

MethodOf(o, req) ==
    CASE o = "get_vk" -> get_vk_method(req)
      [] o = "prove" -> prove_method
      [] o = "query_task" -> query_task_method(req)

(* ------------------------------- steps --------------------------------- *)

NoRequest == [task_id |-> ""]
NoPrev == [kind |-> "none"]

\* SnarkifyProver::new, no call made yet
Init ==
    /\ base_url \in BaseUrls
    /\ retry_count \in 0..MaxRetryCount
    /\ pc = "idle"
    /\ op = "none"
    /\ request = NoRequest
    /\ attempts = 0
    /\ outcome = NoOutcome
    /\ result = None
    /\ log = << >>
    /\ prev = NoPrev

\* the caller invokes operation o with request r: the URL is built and, if
\* it parses, the first attempt goes out; if not, the call returns at once
Call(o, r) ==
    /\ pc \in {"idle", "returned"}
    /\ op' = o
    /\ request' = r
    /\ outcome' = NoOutcome
    /\ prev' = IF /\ pc = "returned" /\ op = o /\ request = r
                  /\ attempts = 1 /\ outcome.kind = "answer"
               THEN [kind |-> "some", answer |-> outcome, result |-> result]
               ELSE NoPrev
    /\ IF build_url(MethodOf(o, r)).ok
       THEN /\ pc' = "sending"
            /\ attempts' = 1
            /\ result' = None
            /\ log' = << >>
       ELSE LET out == Serve(o, r, NoOutcome)
            IN  /\ pc' = "returned"
                /\ attempts' = 0
                /\ result' = Some(out.resp)
                /\ log' = out.log
    /\ UNCHANGED << base_url, retry_count >>

\* the attempt in flight ends with outcome o: the middleware either
\* schedules another attempt or hands o to the operation, which returns
Settle(o) ==
    /\ outcome' = o
    /\ IF Retryable(o) /\ should_retry(attempts - 1, retry_count)
       THEN /\ pc' = "backoff"
            /\ UNCHANGED << result, log >>
       ELSE LET out == Serve(op, request, o)
            IN  /\ pc' = "returned"
                /\ result' = Some(out.resp)
                /\ log' = out.log
    /\ UNCHANGED << base_url, retry_count, op, request, attempts, prev >>

\* the attempt fails in transport: connection error, reset, timeout
\* (transient) or an error the middleware treats as final
AttemptFails ==
    /\ pc = "sending"
    /\ \E o \in {TransientError, FatalError} : Settle(o)

\* the remote answers the attempt
AttemptAnswered ==
    /\ pc = "sending"
    /\ \E s \in Statuses : \E b \in BodiesFor(s) : Settle(Answer(s, b))

\* the backoff delay is over: the next attempt goes out
Retry ==
    /\ pc = "backoff"
    /\ pc' = "sending"
    /\ attempts' = attempts + 1
    /\ UNCHANGED << base_url, retry_count, op, request, outcome, result, log, prev >>

Next ==
    \/ \E o \in Ops : \E r \in RequestsOf(o) : Call(o, r)
    \/ AttemptFails
    \/ AttemptAnswered
    \/ Retry

Spec == Init /\ [][Next]_vars

\* every attempt ends (the per-request timeout bounds it) and every backoff
\* delay is finite
FairSpec ==
    Spec /\ WF_vars(AttemptFails \/ AttemptAnswered) /\ WF_vars(Retry)

TypeOK ==
    /\ base_url \in BaseUrls
    /\ retry_count \in 0..MaxRetryCount
    /\ pc \in {"idle", "sending", "backoff", "returned"}
    /\ op \in Ops \cup {"none"}
    /\ attempts \in 0..(MaxRetryCount + 1)

(* ------------------------- the call as observed ------------------------ *)

Returned == pc = "returned"

\* the response of the returned call
Resp == Unwrap(result)

StatusAccepted(s) == s \in {200, 201, 202}

ExpectedShape == IF op = "get_vk" THEN "vk" ELSE "task"

UrlFailed == base_url[1] = ""
TransportFailed == outcome.kind \in {"transient", "fatal"}
StatusFailed == outcome.kind = "answer" /\ ~StatusAccepted(outcome.status)
BodyFailed ==
    /\ outcome.kind = "answer"
    /\ StatusAccepted(outcome.status)
    /\ outcome.body.kind # ExpectedShape
InputFailed ==
    /\ op = "query_task"
    /\ outcome.kind = "answer"
    /\ StatusAccepted(outcome.status)
    /\ outcome.body.kind = "task"
    /\ ~outcome.body.input.json

\* some step of the returned call failed
StepFailed == UrlFailed \/ TransportFailed \/ StatusFailed \/ BodyFailed \/ InputFailed

TaskFields ==
    {"task_id", "circuit_type", "circuit_version", "hard_fork_name", "status",
     "created_at", "started_at", "finished_at", "compute_time_sec", "input",
     "proof", "vk", "error"}

WellFormed ==
    /\ IsSome(result)
    /\ DOMAIN Resp = IF op = "get_vk" THEN {"vk", "error"} ELSE TaskFields
    /\ op # "get_vk" => Resp.status \in {"Queued", "Proving", "Success", "Failed"}

\* the safe default shape of a failure response
SafeDefault ==
    /\ IsSome(Resp.error)
    /\ op = "get_vk" => Resp.vk = ""
    /\ op = "prove" => Resp.status = "Failed"
    /\ op = "query_task" => Resp.status = "Queued"

(* ------------------------------- claims -------------------------------- *)

\* C1: get_vk, prove and query_task are total: whatever URL building,
\* transport, the status check, body decoding and (query_task) input
\* decoding do, the call returns a well-formed response; when a step fails
\* the response has error set and the safe default shape.
C1_Total ==
    Returned => /\ WellFormed
                /\ StepFailed => SafeDefault

C1_Witness ==
    /\ Returned /\ op = "prove" /\ attempts = retry_count + 1 /\ attempts > 1
    /\ TransportFailed /\ SafeDefault

RetriedStatus(st) == st \in 500..599 \/ st = 408 \/ st = 429

C3_ComputeTime ==
    Returned /\ op = "query_task" =>
        /\ IsSome(Resp.compute_time_sec) <=>
               (IsSome(Resp.started_at) /\ IsSome(Resp.finished_at))
        /\ IsSome(Resp.compute_time_sec) =>
               Unwrap(Resp.compute_time_sec) =
                   Unwrap(Resp.finished_at) - Unwrap(Resp.started_at)

C3_Witness ==
    /\ Returned /\ op = "query_task"
    /\ IsSome(Resp.started_at) /\ IsSome(Resp.finished_at)
    /\ Resp.compute_time_sec = Some(15)

\* C4: every prove response, success or failure, carries the request's
\* input, circuit_type, circuit_version and hard_fork_name.
C4_ProveEcho ==
    Returned /\ op = "prove" =>
        /\ Resp.input = Some(request.input)
        /\ Resp.circuit_type = request.circuit_type
        /\ Resp.circuit_version = request.circuit_version
        /\ Resp.hard_fork_name = request.hard_fork_name

C4_Witness ==
    /\ Returned /\ op = "prove" /\ ~StepFailed
    /\ request.input = "0xbeef" /\ Resp.input = Some("0xbeef")
    /\ Resp.task_id = "remote42"

\* C5: a query_task that fails (transport, status, body or input decoding)
\* returns the canonical failure response: the requested task_id,
\* circuit_type Undefined, empty version and fork, status Queued, nothing
\* else set but error.
C5_QueryFailure ==
    Returned /\ op = "query_task" /\ StepFailed =>
        /\ IsSome(Resp.error)
        /\ [Resp EXCEPT !.error = None] =
              [task_id |-> request.task_id, circuit_type |-> "Undefined",
               circuit_version |-> "", hard_fork_name |-> "",
               status |-> "Queued", created_at |-> 0, started_at |-> None,
               finished_at |-> None, compute_time_sec |-> None,
               input |-> None, proof |-> None, vk |-> None, error |-> None]
        /\ Resp.status \notin {"Success", "Failed"}

C5_Witness ==
    /\ Returned /\ op = "query_task" /\ InputFailed
    /\ Resp.task_id = "abc123" /\ outcome.body.task_id = "remote42"
    /\ Resp.status = "Queued"

\* C6: get_vk returns the decoded vk with no error when the final answer
\* has a status in [200, 202] and a decodable body, and vk = "" with an
\* error when the final answer's status is outside [200, 202].
C6_GetVk ==
    Returned /\ op = "get_vk" /\ outcome.kind = "answer" =>
        /\ (StatusAccepted(outcome.status) /\ outcome.body.kind = "vk") =>
               (Resp.error = None /\ Resp.vk = outcome.body.vk)
        /\ ~StatusAccepted(outcome.status) =>
               (Resp.vk = "" /\ IsSome(Resp.error))

C6_Witness ==
    /\ Returned /\ op = "get_vk" /\ outcome.kind = "answer"
    /\ outcome.status = 203 /\ outcome.body.kind = "vk" /\ Resp.vk = ""

C8_Bounded ==
    /\ attempts <= retry_count + 1
    /\ pc \in {"sending", "backoff"} => (result = None /\ attempts >= 1)
    /\ Returned /\ outcome.kind = "transient" =>
          (attempts = retry_count + 1 /\ SafeDefault)

\* C8: a call sends at most retry_count + 1 attempts, sends none after it
\* has returned, and returns; when its last attempt failed transiently the
\* retries are used up and it returns a failure response.
C8_Terminates ==
    /\ []C8_Bounded
    /\ [][attempts' > attempts => (pc # "returned" \/ attempts' <= 1)]_vars
    /\ (pc \in {"sending", "backoff"}) ~> Returned

C8_Witness ==
    /\ Returned /\ outcome.kind = "transient" /\ retry_count = MaxRetryCount
    /\ attempts = retry_count + 1 /\ SafeDefault

\* C9 as stated: no response has error set together with proof or vk.
C9_AsStated ==
    Returned /\ IsSome(Resp.error) =>
        IF op = "get_vk" THEN Resp.vk = ""
        ELSE Resp.proof = None /\ Resp.vk = None

\* C9 amended: a response whose error the adapter set (a failed step) has
\* proof and vk unset (vk = "" for get_vk); a successful get_vk or prove
\* has no error; a successful query_task carries the remote's proof and
\* error as they came, so it has both set exactly when the remote sent both.
C9_Amended ==
    Returned =>
        /\ StepFailed =>
              /\ IsSome(Resp.error)
              /\ IF op = "get_vk" THEN Resp.vk = ""
                 ELSE Resp.proof = None /\ Resp.vk = None
        /\ (~StepFailed /\ op \in {"get_vk", "prove"}) => Resp.error = None
        /\ (~StepFailed /\ op = "prove") => (Resp.proof = None /\ Resp.vk = None)
        /\ (~StepFailed /\ op = "query_task") =>
              /\ Resp.proof = outcome.body.proof
              /\ Resp.error = outcome.body.error
              /\ Resp.vk = None

C9_Witness ==
    /\ Returned /\ op = "prove" /\ StatusFailed
    /\ IsSome(Resp.error) /\ Resp.proof = None /\ Resp.vk = None

\* C10: every call in which a step failed has logged an error line naming
\* the operation by the time it returns.
C10_FailureLogged ==
    Returned /\ StepFailed =>
        \E i \in 1..Len(log) :
            log[i].level = "error" /\ log[i].text = << op, "method failed" >>

====
